---- MODULE Spec2Model ----
(***************************************************************************)
(* A model of the spam filter of src/main.ipynb: the tokenizer and the     *)
(* word-frequency store of class DataStore, and the scorer of class        *)
(* NaiveBayesFilter.                                                       *)
(*                                                                         *)
(* A Python str is a sequence of one-character strings.  A float is an     *)
(* exact real: a finite score is kept as the product whose logarithm the   *)
(* code sums, eps^e * num / den, and the IEEE special values the numpy     *)
(* operations produce (inf, -inf, nan) are kept as kinds of their own.     *)
(***************************************************************************)
EXTENDS Integers, Sequences, FiniteSets, TLC

VARIABLES storage, num_spam, num_ham, trained, op, arg, lbl, eps, ret

vars == <<storage, num_spam, num_ham, trained, op, arg, lbl, eps, ret>>

(***************************************************************************)
(* Bounds of the model.                                                    *)
(***************************************************************************)
\* the number of training calls of one run
MaxTrain == 3
\* the length of the texts the tokenizer is run on
MaxLen == 5

(***************************************************************************)
(* Constants of the program.                                               *)
(***************************************************************************)
SPAM == "spam"
HAM == "ham"
Labels == {SPAM, HAM}
\* self._epsilon = 1e-6, kept as the rational 1 / EpsDen
EpsDen == 1000000

(***************************************************************************)
(* Character classes of Python's re module, over the characters used.      *)
(***************************************************************************)
Letters ==
    {"a", "b", "c", "d", "e", "f", "g", "h", "i", "j", "k", "l", "m",
     "n", "o", "p", "q", "r", "s", "t", "u", "v", "w", "x", "y", "z",
     "A", "B", "C", "D", "E", "F", "G", "H", "I", "J", "K", "L", "M",
     "N", "O", "P", "Q", "R", "S", "T", "U", "V", "W", "X", "Y", "Z"}
Digits == {"0", "1", "2", "3", "4", "5", "6", "7", "8", "9"}
\* \w
WordChars == Letters \cup Digits \cup {"_"}
\* \s
Whitespace == {" ", "\t", "\n", "\r", "\f"}

\* self._tag_re: a member of the class [\w|\s|\=|\:]
IsTagChar(c) == c \in WordChars \/ c = "|" \/ c \in Whitespace \/ c = "=" \/ c = ":"
\* self._non_word_re: a member of the negated class [^\w|\S]
IsNonWord(c) == ~(c \in WordChars \/ c = "|" \/ c \notin Whitespace)
\* self._word_re: a member of the class [a-zA-Z]
IsWordLetter(c) == c \in Letters

(***************************************************************************)
(* re.split, str.join, str.split, str.strip and re.findall.                *)
(***************************************************************************)
RECURSIVE RunEnd(_, _)
\* the first index at or after j of s that holds no member of the tag class
RunEnd(s, j) ==
    IF j <= Len(s) /\ IsTagChar(s[j]) THEN RunEnd(s, j + 1) ELSE j

\* the index of the '>' that ends a match of self._tag_re starting at i, or 0
TagEnd(s, i) ==
    IF s[i] # "<" THEN 0
    ELSE LET j == IF i + 1 <= Len(s) /\ s[i + 1] = "/" THEN i + 2 ELSE i + 1
             k == RunEnd(s, j)
         IN  IF k > j /\ k <= Len(s) /\ s[k] = ">" THEN k ELSE 0

RECURSIVE TagSplitFrom(_, _, _, _)
TagSplitFrom(s, i, start, acc) ==
    IF i > Len(s) THEN Append(acc, SubSeq(s, start, Len(s)))
    ELSE LET k == TagEnd(s, i)
         IN  IF k # 0
             THEN TagSplitFrom(s, k + 1, k + 1, Append(acc, SubSeq(s, start, i - 1)))
             ELSE TagSplitFrom(s, i + 1, start, acc)

\* self._tag_re.split(message)
TagSplit(message) == TagSplitFrom(message, 1, 1, <<>>)

RECURSIVE JoinFrom(_, _, _)
JoinFrom(sep, pieces, i) ==
    IF i > Len(pieces) THEN <<>>
    ELSE IF i = Len(pieces) THEN pieces[i]
    ELSE pieces[i] \o sep \o JoinFrom(sep, pieces, i + 1)

\* sep.join(pieces)
Join(sep, pieces) == JoinFrom(sep, pieces, 1)

RECURSIVE NonWordSplitFrom(_, _, _, _)
NonWordSplitFrom(s, i, start, acc) ==
    IF i > Len(s) THEN Append(acc, SubSeq(s, start, Len(s)))
    ELSE IF IsNonWord(s[i])
         THEN NonWordSplitFrom(s, i + 1, i + 1, Append(acc, SubSeq(s, start, i - 1)))
         ELSE NonWordSplitFrom(s, i + 1, start, acc)

\* self._non_word_re.split(s)
NonWordSplit(s) == NonWordSplitFrom(s, 1, 1, <<>>)

RECURSIVE SpaceSplitFrom(_, _, _, _)
SpaceSplitFrom(s, i, start, acc) ==
    IF i > Len(s) THEN Append(acc, SubSeq(s, start, Len(s)))
    ELSE IF s[i] = " "
         THEN SpaceSplitFrom(s, i + 1, i + 1, Append(acc, SubSeq(s, start, i - 1)))
         ELSE SpaceSplitFrom(s, i + 1, start, acc)

\* line.split(' ')
SpaceSplit(line) == SpaceSplitFrom(line, 1, 1, <<>>)

RECURSIVE Strip(_)
\* word.strip()
Strip(word) ==
    IF word = <<>> THEN word
    ELSE IF Head(word) \in Whitespace THEN Strip(Tail(word))
    ELSE IF word[Len(word)] \in Whitespace THEN Strip(SubSeq(word, 1, Len(word) - 1))
    ELSE word

RECURSIVE FindAllFrom(_, _, _, _)
FindAllFrom(s, i, cur, acc) ==
    IF i > Len(s) THEN (IF cur = <<>> THEN acc ELSE Append(acc, cur))
    ELSE IF IsWordLetter(s[i]) THEN FindAllFrom(s, i + 1, Append(cur, s[i]), acc)
    ELSE FindAllFrom(s, i + 1, <<>>, IF cur = <<>> THEN acc ELSE Append(acc, cur))

\* self._word_re.findall(word)
FindAll(word) == FindAllFrom(word, 1, <<>>, <<>>)

RECURSIVE KeepNonEmpty(_)
\* if len(word)==0: continue
KeepNonEmpty(ws) ==
    IF ws = <<>> THEN <<>>
    ELSE IF Len(Head(ws)) = 0 THEN KeepNonEmpty(Tail(ws))
    ELSE <<Head(ws)>> \o KeepNonEmpty(Tail(ws))

RECURSIVE WordsOfPieces(_)
\* the loop over line.split(' ') of one line
WordsOfPieces(ps) ==
    IF ps = <<>> THEN <<>>
    ELSE KeepNonEmpty(FindAll(Strip(Head(ps)))) \o WordsOfPieces(Tail(ps))

RECURSIVE WordsOfLines(_)
\* the loop over the lines
WordsOfLines(ls) ==
    IF ls = <<>> THEN <<>>
    ELSE WordsOfPieces(SpaceSplit(Head(ls))) \o WordsOfLines(Tail(ls))

\* a variant that joins the pieces with nothing between them
TagJoinerNone == <<>>

\* the separator the pieces between tags are joined with
TagJoiner == <<" ">>

\* DataStore.get_words
get_words(message) == WordsOfLines(NonWordSplit(Join(TagJoiner, TagSplit(message))))

(***************************************************************************)
(* The messages the store is trained on and queried with.                  *)
(***************************************************************************)
\* "buy cheap now"
BuyCheapNow == <<"b", "u", "y", " ", "c", "h", "e", "a", "p", " ", "n", "o", "w">>
\* "let's meet for lunch"
LetsMeetForLunch == <<"l", "e", "t", "'", "s", " ", "m", "e", "e", "t", " ", "f", "o", "r", " ", "l", "u", "n", "c", "h">>
\* "buy cheap stuff"
BuyCheapStuff == <<"b", "u", "y", " ", "c", "h", "e", "a", "p", " ", "s", "t", "u", "f", "f">>
\* "let's meet"
LetsMeet == <<"l", "e", "t", "'", "s", " ", "m", "e", "e", "t">>
\* ""
Empty == <<>>
\* " 1<b>!"
NoWords == <<" ", "1", "<", "b", ">", "!">>
\* "now now buy"
NowNowBuy == <<"n", "o", "w", " ", "n", "o", "w", " ", "b", "u", "y">>

MessageSeq ==
    <<BuyCheapNow, LetsMeetForLunch, BuyCheapStuff, LetsMeet, Empty, NoWords, NowNowBuy>>
Messages == {MessageSeq[i] : i \in 1..Len(MessageSeq)}
\* the messages the store is trained on
TrainSeq == <<BuyCheapNow, LetsMeetForLunch, Empty, NoWords, NowNowBuy>>
TrainMessages == {TrainSeq[i] : i \in 1..Len(TrainSeq)}

\* get_words is a pure function: its results on the messages, computed once
MessageWords == [m \in Messages |-> get_words(m)]
words_of(message) == MessageWords[message]

(***************************************************************************)
(* Numbers.  A count or an epsilon is the rational num / den.              *)
(***************************************************************************)
Rat(n, d) == [num |-> n, den |-> d]
\* NaiveBayesFilter._epsilon
Epsilon == Rat(1, EpsDen)
\* the epsilons get_word_frequency is called with
Epsilons == {Epsilon, Rat(1, 2)}

(***************************************************************************)
(* DataStore: the dictionary self._storage and the two counters.           *)
(***************************************************************************)
\* self._storage = {}
EmptyDict == [k \in {} |-> 0]

\* dict.get(key, default)
DictGet(d, key, default) == IF key \in DOMAIN d THEN d[key] ELSE default

\* d[key] = value
DictSet(d, key, value) ==
    [k \in DOMAIN d \cup {key} |-> IF k = key THEN value ELSE d[k]]

RECURSIVE AddWordsDistinct(_, _, _)
\* a variant that counts a word once per message
AddWordsDistinct(st, words, label) ==
    IF words = <<>> THEN st
    ELSE LET key == <<label, Head(words)>>
             count == DictGet(st, key, 0)
             seen == \E i \in 2..Len(words) : words[i] = Head(words)
         IN  AddWordsDistinct(IF seen THEN st ELSE DictSet(st, key, count + 1),
                              Tail(words), label)

RECURSIVE AddWordsSpamKey(_, _, _)
\* a variant that reads the count under SPAM whatever the label
AddWordsSpamKey(st, words, label) ==
    IF words = <<>> THEN st
    ELSE LET key == <<label, Head(words)>>
             count == DictGet(st, <<SPAM, Head(words)>>, 0)
         IN  AddWordsSpamKey(DictSet(st, key, count + 1), Tail(words), label)

RECURSIVE AddWords(_, _, _)
\* the loop of _add_entry over the words
AddWords(st, words, label) ==
    IF words = <<>> THEN st
    ELSE LET key == <<label, Head(words)>>
             count == DictGet(st, key, 0)
         IN  AddWords(DictSet(st, key, count + 1), Tail(words), label)

\* a variant that counts every message as ham
NumHamAfterAlways(nh, label) == nh + 1

\* the counters after _add_entry
NumSpamAfter(ns, label) == IF label = SPAM THEN ns + 1 ELSE ns
NumHamAfter(nh, label) ==
    IF label = SPAM THEN nh ELSE IF label = HAM THEN nh + 1 ELSE nh

\* DataStore._add_entry: the store after the call
add_entry(st, ns, nh, message, label) ==
    [storage |-> AddWords(st, words_of(message), label),
     num_spam |-> NumSpamAfter(ns, label),
     num_ham |-> NumHamAfter(nh, label)]

\* DataStore.num_messages
num_messages(ns, nh) == nh + ns

RECURSIVE FreqOfAnyLabel(_, _, _, _, _)
\* a variant that finds a word under either label
FreqOfAnyLabel(st, words, label, epsilon, acc) ==
    IF words = <<>> THEN acc
    ELSE LET w == Head(words)
             v == IF <<label, w>> \in DOMAIN st THEN Rat(st[<<label, w>>], 1)
                  ELSE IF <<SPAM, w>> \in DOMAIN st THEN Rat(st[<<SPAM, w>>], 1)
                  ELSE IF <<HAM, w>> \in DOMAIN st THEN Rat(st[<<HAM, w>>], 1)
                  ELSE epsilon
         IN  FreqOfAnyLabel(st, Tail(words), label, epsilon, DictSet(acc, w, v))

RECURSIVE FreqOf(_, _, _, _, _)
\* the dict comprehension of get_word_frequency, word by word
FreqOf(st, words, label, epsilon, acc) ==
    IF words = <<>> THEN acc
    ELSE LET w == Head(words)
             v == IF <<label, w>> \in DOMAIN st THEN Rat(st[<<label, w>>], 1)
                  ELSE epsilon
         IN  FreqOf(st, Tail(words), label, epsilon, DictSet(acc, w, v))

\* a variant whose lookups insert the missing keys, as a defaultdict does
StorageAfterGetInserting(st, words, label) ==
    [k \in DOMAIN st \cup {<<label, words[i]>> : i \in 1..Len(words)} |->
        IF k \in DOMAIN st THEN st[k] ELSE 0]

\* self._storage after the lookups of get_word_frequency: dict.get with a
\* default returns the default for a missing key and stores nothing
StorageAfterGet(st, words, label) == st

\* DataStore.get_word_frequency
get_word_frequency(st, message, label, epsilon) ==
    FreqOf(st, words_of(message), label, epsilon, EmptyDict)

(***************************************************************************)
(* Floats.  cls is "finite", "inf", "-inf" or "nan"; a finite float x is   *)
(* kept as exp(x) = num / (den * EpsDen^e), the product whose logarithm    *)
(* the code sums.  A call that raises returns Raise.                       *)
(***************************************************************************)
Raise == [kind |-> "ZeroDivisionError"]
Float(c, x, n, d) == [kind |-> "float", cls |-> c, e |-> x, num |-> n, den |-> d]
Finite(x, n, d) == Float("finite", x, n, d)
PosInf == Float("inf", 0, 0, 1)
NegInf == Float("-inf", 0, 0, 1)
NaN == Float("nan", 0, 0, 1)
None == [kind |-> "None"]
Bool(b) == [kind |-> "bool", val |-> b]
Value(v) == [kind |-> "value", val |-> v]

\* x * (v / labelCount), for a finite x and labelCount > 0
MulRatio(x, v, labelCount) ==
    IF v.den % EpsDen = 0
    THEN Finite(x.e + 1, x.num * v.num, x.den * (v.den \div EpsDen) * labelCount)
    ELSE Finite(x.e, x.num * v.num, x.den * v.den * labelCount)

RECURSIVE ProductOver(_, _, _, _)
ProductOver(freq, keys, labelCount, acc) ==
    IF keys = {} THEN acc
    ELSE LET w == CHOOSE k \in keys : TRUE
         IN  ProductOver(freq, keys \ {w}, labelCount, MulRatio(acc, freq[w], labelCount))

\* np.log(np.array(list(freq.values())) / labelCount).sum(): numpy divides by
\* zero without raising, a positive value over 0 is inf and 0 over 0 is nan
LogLikelihood(freq, labelCount) ==
    IF DOMAIN freq = {} THEN Finite(0, 1, 1)
    ELSE IF labelCount = 0
         THEN (IF \E w \in DOMAIN freq : freq[w].num = 0 THEN NaN ELSE PosInf)
         ELSE ProductOver(freq, DOMAIN freq, labelCount, Finite(0, 1, 1))

\* a variant that divides with numpy, which yields nan for 0 / 0
LogPriorNumpy(labelCount, total) ==
    IF total = 0 THEN NaN
    ELSE IF labelCount = 0 THEN NegInf
    ELSE Finite(0, labelCount, total)

\* np.log(labelCount / num_messages): the division is Python's and raises
\* ZeroDivisionError; np.log(0.0) is -inf
LogPrior(labelCount, total) ==
    IF total = 0 THEN Raise
    ELSE IF labelCount = 0 THEN NegInf
    ELSE Finite(0, labelCount, total)

\* a + b of two floats; the left operand is evaluated first, b may raise
FloatAdd(a, b) ==
    IF b.kind # "float" THEN b
    ELSE IF a.cls = "nan" \/ b.cls = "nan" THEN NaN
    ELSE IF a.cls = "inf" THEN (IF b.cls = "-inf" THEN NaN ELSE PosInf)
    ELSE IF a.cls = "-inf" THEN (IF b.cls = "inf" THEN NaN ELSE NegInf)
    ELSE IF b.cls # "finite" THEN b
    ELSE Finite(a.e + b.e, a.num * b.num, a.den * b.den)

RECURSIVE GtPow(_, _, _), GePow(_, _, _)
\* a > b * EpsDen^d
GtPow(a, b, d) ==
    IF d = 0 THEN a > b
    ELSE IF a % EpsDen > 0 THEN GePow(a \div EpsDen, b, d - 1)
    ELSE GtPow(a \div EpsDen, b, d - 1)
\* a >= b * EpsDen^d
GePow(a, b, d) ==
    IF d = 0 THEN a >= b ELSE GePow(a \div EpsDen, b, d - 1)

\* x > y of two finite floats
FiniteGreater(x, y) ==
    LET a == x.num * y.den
        b == y.num * x.den
    IN  IF x.e >= y.e THEN GtPow(a, b, x.e - y.e) ELSE ~GePow(b, a, y.e - x.e)

\* a variant that compares with >=
FloatGreaterOrEqual(x, y) ==
    IF x.cls = "nan" \/ y.cls = "nan" THEN FALSE
    ELSE IF x.cls = "inf" THEN TRUE
    ELSE IF x.cls = "-inf" THEN y.cls = "-inf"
    ELSE IF y.cls = "-inf" THEN TRUE
    ELSE IF y.cls = "inf" THEN FALSE
    ELSE ~FiniteGreater(y, x)

\* a variant that compares with <
FloatLess(x, y) ==
    IF x.cls = "nan" \/ y.cls = "nan" THEN FALSE
    ELSE IF y.cls = "inf" THEN x.cls # "inf"
    ELSE IF y.cls = "-inf" THEN FALSE
    ELSE IF x.cls = "-inf" THEN TRUE
    ELSE IF x.cls = "inf" THEN FALSE
    ELSE FiniteGreater(y, x)

\* x > y of two floats: a comparison with nan is False
FloatGreater(x, y) ==
    IF x.cls = "nan" \/ y.cls = "nan" THEN FALSE
    ELSE IF x.cls = "inf" THEN y.cls # "inf"
    ELSE IF x.cls = "-inf" THEN FALSE
    ELSE IF y.cls = "-inf" THEN TRUE
    ELSE IF y.cls = "inf" THEN FALSE
    ELSE FiniteGreater(x, y)

(***************************************************************************)
(* NaiveBayesFilter.                                                       *)
(***************************************************************************)
\* NaiveBayesFilter.spamminess
spamminess(st, ns, nh, message) ==
    LET freq == get_word_frequency(st, message, SPAM, Epsilon)
    IN  FloatAdd(LogLikelihood(freq, ns), LogPrior(ns, num_messages(ns, nh)))

\* NaiveBayesFilter.hamminess
hamminess(st, ns, nh, message) ==
    LET freq == get_word_frequency(st, message, HAM, Epsilon)
    IN  FloatAdd(LogLikelihood(freq, nh), LogPrior(nh, num_messages(ns, nh)))

\* NaiveBayesFilter.is_spam
is_spam(st, ns, nh, message) ==
    LET p_spam == spamminess(st, ns, nh, message)
        p_ham == hamminess(st, ns, nh, message)
    IN  IF p_spam.kind # "float" THEN p_spam
        ELSE IF p_ham.kind # "float" THEN p_ham
        ELSE Bool(FloatGreater(p_spam, p_ham))

(***************************************************************************)
(* The state machine: one action per call on the store or on the filter.   *)
(* trained counts the training calls made so far, per (label, message).    *)
(***************************************************************************)
Pairs == Labels \X TrainMessages

RECURSIVE SumOver(_, _)
SumOver(f, keys) ==
    IF keys = {} THEN 0
    ELSE LET k == CHOOSE x \in keys : TRUE IN f[k] + SumOver(f, keys \ {k})

NumTrained == SumOver(trained, Pairs)

Init ==
    /\ storage = EmptyDict
    /\ num_spam = 0
    /\ num_ham = 0
    /\ trained = [p \in Pairs |-> 0]
    /\ op = "init"
    /\ arg = <<>>
    /\ lbl = "none"
    /\ eps = Epsilon
    /\ ret = None

Train(message, label) ==
    LET after == add_entry(storage, num_spam, num_ham, message, label)
    IN  /\ NumTrained < MaxTrain
        /\ storage' = after.storage
        /\ num_spam' = after.num_spam
        /\ num_ham' = after.num_ham
        /\ trained' = [trained EXCEPT ![<<label, message>>] = @ + 1]
        /\ arg' = message
        /\ lbl' = label
        /\ ret' = None
        /\ UNCHANGED eps

\* DataStore.add_spam
AddSpam(message) == Train(message, SPAM) /\ op' = "add_spam"

\* DataStore.add_ham
AddHam(message) == Train(message, HAM) /\ op' = "add_ham"

Query(name, message, label, epsilon, result, after) ==
    /\ op' = name
    /\ arg' = message
    /\ lbl' = label
    /\ eps' = epsilon
    /\ ret' = result
    /\ storage' = after
    /\ UNCHANGED <<num_spam, num_ham, trained>>

\* DataStore.get_words
GetWords(message) ==
    Query("get_words", message, "none", Epsilon, Value(words_of(message)), storage)

\* DataStore.get_word_frequency
GetWordFrequency(message, label, epsilon) ==
    Query("get_word_frequency", message, label, epsilon,
          Value(get_word_frequency(storage, message, label, epsilon)),
          StorageAfterGet(storage, words_of(message), label))

\* NaiveBayesFilter.spamminess
Spamminess(message) ==
    Query("spamminess", message, SPAM, Epsilon,
          spamminess(storage, num_spam, num_ham, message),
          StorageAfterGet(storage, words_of(message), SPAM))

\* NaiveBayesFilter.hamminess
Hamminess(message) ==
    Query("hamminess", message, HAM, Epsilon,
          hamminess(storage, num_spam, num_ham, message),
          StorageAfterGet(storage, words_of(message), HAM))

\* NaiveBayesFilter.is_spam
IsSpam(message) ==
    Query("is_spam", message, "none", Epsilon,
          is_spam(storage, num_spam, num_ham, message),
          StorageAfterGet(StorageAfterGet(storage, words_of(message), SPAM),
                          words_of(message), HAM))

Next ==
    \/ \E m \in TrainMessages : AddSpam(m)
    \/ \E m \in TrainMessages : AddHam(m)
    \/ \E m \in Messages : GetWords(m)
    \/ \E m \in Messages, l \in Labels, e \in Epsilons : GetWordFrequency(m, l, e)
    \/ \E m \in Messages : Spamminess(m)
    \/ \E m \in Messages : Hamminess(m)
    \/ \E m \in Messages : IsSpam(m)

Spec == Init /\ [][Next]_vars

(***************************************************************************)
(* The tokenizer alone, run on every text of at most MaxLen characters     *)
(* over an alphabet with one character of each class the regular           *)
(* expressions tell apart.                                                 *)
(***************************************************************************)
Alphabet == {"a", "1", " ", "<", ">", "/", "|"}
Texts == UNION {[1..n -> Alphabet] : n \in 0..MaxLen}

InitTok ==
    /\ storage = EmptyDict
    /\ num_spam = 0
    /\ num_ham = 0
    /\ trained = [p \in Pairs |-> 0]
    /\ op = "input"
    /\ arg \in Texts
    /\ lbl = "none"
    /\ eps = Epsilon
    /\ ret = None

Tokenize ==
    /\ op = "input"
    /\ op' = "get_words"
    /\ ret' = Value(get_words(arg))
    /\ UNCHANGED <<storage, num_spam, num_ham, trained, arg, lbl, eps>>

NextTok == Tokenize

SpecTok == InitTok /\ [][NextTok]_vars

(***************************************************************************)
(* Properties of the store.                                                *)
(***************************************************************************)
Range(f) == {f[x] : x \in DOMAIN f}
IsTraining(name) == name \in {"add_spam", "add_ham"}
\* every word of every message
AllWords == UNION {Range(MessageWords[m]) : m \in Messages}
\* the stored count of a word under a label, 0 when the key is absent
Count(st, label, word) == IF <<label, word>> \in DOMAIN st THEN st[<<label, word>>] ELSE 0
\* the number of occurrences of a word in a list of words
Occurrences(word, ws) == Cardinality({i \in 1..Len(ws) : ws[i] = word})
\* a word has been trained under a label
TrainedUnder(label, word) ==
    \E m \in TrainMessages : trained[<<label, m>>] > 0 /\ word \in Range(MessageWords[m])

\* C1: add_spam returns normally, adds exactly 1 to num_spam and leaves
\* num_ham alone; add_ham adds exactly 1 to num_ham and leaves num_spam
\* alone; num_messages grows by exactly 1 per training call, whatever the
\* message (the empty one included).
C1_TrainingCountsOneMessage ==
    [][/\ op' = "add_spam" =>
            ret' = None /\ num_spam' = num_spam + 1 /\ num_ham' = num_ham
       /\ op' = "add_ham" =>
            ret' = None /\ num_ham' = num_ham + 1 /\ num_spam' = num_spam
       /\ IsTraining(op') =>
            num_messages(num_spam', num_ham') = num_messages(num_spam, num_ham) + 1]_vars

C1_Witness ==
    op = "add_spam" /\ arg = Empty /\ num_spam = 2 /\ num_ham = 1

\* C2: a training call with label L and message m adds to counts[(L, t)]
\* the number of occurrences of t in the words of m, for every word t, and
\* changes no count under the other label and no count of a word that is
\* not in the message.
C2_CountsGrowPerOccurrence ==
    [][IsTraining(op') =>
         /\ DOMAIN storage' \subseteq Labels \X AllWords
         /\ \A l \in Labels, t \in AllWords :
              Count(storage', l, t) =
                Count(storage, l, t)
                  + (IF l = lbl' THEN Occurrences(t, MessageWords[arg']) ELSE 0)]_vars

C2_Witness ==
    /\ op = "add_spam"
    /\ arg = NowNowBuy
    /\ Count(storage, SPAM, <<"n", "o", "w">>) = 2
    /\ Count(storage, SPAM, <<"b", "u", "y">>) = 1
    /\ Count(storage, SPAM, <<"c", "h", "e", "a", "p">>) = 0
    /\ Count(storage, HAM, <<"n", "o", "w">>) = 1

\* C3: get_word_frequency(m, L, epsilon) returns a mapping whose keys are
\* exactly the distinct words of m; the value of a word is its stored count
\* under L when the word has been trained under L, and epsilon when it has
\* not, also when it has been trained under the other label.
C3_WordFrequency ==
    op = "get_word_frequency" =>
        /\ DOMAIN ret.val = Range(MessageWords[arg])
        /\ \A t \in Range(MessageWords[arg]) :
             ret.val[t] = IF TrainedUnder(lbl, t)
                          THEN Rat(storage[<<lbl, t>>], 1)
                          ELSE eps

C3_Witness ==
    /\ op = "get_word_frequency"
    /\ arg = BuyCheapNow
    /\ lbl = HAM
    /\ eps = Rat(1, 2)
    /\ TrainedUnder(SPAM, <<"c", "h", "e", "a", "p">>)
    /\ ~TrainedUnder(HAM, <<"c", "h", "e", "a", "p">>)
    /\ TrainedUnder(HAM, <<"n", "o", "w">>)
    /\ ret.val[<<"c", "h", "e", "a", "p">>] = Rat(1, 2)
    /\ ret.val[<<"n", "o", "w">>] = Rat(2, 1)

\* the training pairs in one fixed order: spam before ham, TrainSeq's order
PairSeq ==
    [i \in 1..(2 * Len(TrainSeq)) |->
        IF i <= Len(TrainSeq) THEN <<SPAM, TrainSeq[i]>>
        ELSE <<HAM, TrainSeq[i - Len(TrainSeq)]>>]

RECURSIVE Replay(_, _, _, _)
\* the store after training on the pairs of PairSeq from the i-th on, each
\* as often as times says, done counting the calls made for the i-th
Replay(s, times, i, done) ==
    IF i > Len(PairSeq) THEN s
    ELSE IF done < times[PairSeq[i]]
         THEN Replay(add_entry(s.storage, s.num_spam, s.num_ham,
                               PairSeq[i][2], PairSeq[i][1]),
                     times, i, done + 1)
         ELSE Replay(s, times, i + 1, 0)

EmptyStore == [storage |-> EmptyDict, num_spam |-> 0, num_ham |-> 0]

\* C4: training is commutative: in whatever order the training calls were
\* made, the counts and both counters are those of the same calls made in
\* one fixed order, so every permutation ends in the same store.
C4_TrainingCommutes ==
    [storage |-> storage, num_spam |-> num_spam, num_ham |-> num_ham]
        = Replay(EmptyStore, trained, 1, 0)

C4_Witness ==
    /\ op = "add_spam"
    /\ arg = BuyCheapNow
    /\ trained[<<SPAM, BuyCheapNow>>] = 1
    /\ trained[<<HAM, BuyCheapNow>>] = 1
    /\ trained[<<HAM, NowNowBuy>>] = 1

(***************************************************************************)
(* Properties of the filter.                                               *)
(***************************************************************************)
IsScoring(name) == name \in {"spamminess", "hamminess", "is_spam"}
\* a finite float whose value is EpsDen^(-x) * n / d
IsProduct(f, x, n, d) ==
    f.kind = "float" /\ f.cls = "finite" /\ f.e = x /\ f.num * d = n * f.den
\* exactly one spam "buy cheap now" and one ham "let's meet for lunch"
TrainedOnExample ==
    trained = [p \in Pairs |->
                 IF p = <<SPAM, BuyCheapNow>> \/ p = <<HAM, LetsMeetForLunch>>
                 THEN 1 ELSE 0]

\* C5: with one label trained and the other not, is_spam raises an error
\* for every message.
C5_UntrainedLabelRaises ==
    (/\ op = "is_spam"
     /\ \/ num_spam = 0 /\ num_ham >= 1
        \/ num_ham = 0 /\ num_spam >= 1)
        => ret = Raise

\* C6: on a store that has never been trained, is_spam, spamminess and
\* hamminess raise an error for every message, the empty one included.
C6_FreshStoreRaises ==
    (num_spam = 0 /\ num_ham = 0 /\ IsScoring(op)) => ret = Raise

C6_Witness ==
    /\ op = "hamminess"
    /\ arg = BuyCheapStuff
    /\ num_spam = 0
    /\ num_ham = 0
    /\ ret = Raise

\* C7: with both labels trained, is_spam of a message without words does
\* not raise and is true exactly when num_spam > num_ham; a tie is false.
C7_NoWordsComparesCounts ==
    (/\ op = "is_spam"
     /\ num_spam >= 1
     /\ num_ham >= 1
     /\ MessageWords[arg] = <<>>)
        => ret = Bool(num_spam > num_ham)

C7_Witness ==
    /\ op = "is_spam"
    /\ arg = NoWords
    /\ num_spam = 2
    /\ num_ham = 1
    /\ ret = Bool(TRUE)

\* C8: after add_spam("buy cheap now") and add_ham("let's meet for lunch"),
\* in either order, is_spam("buy cheap stuff") is true and
\* is_spam("let's meet") is false, each score being the product over the
\* distinct words of (count or epsilon) / labelCount, times
\* labelCount / num_messages.
C8_EndToEnd ==
    TrainedOnExample =>
        /\ (op = "is_spam" /\ arg = BuyCheapStuff) => ret = Bool(TRUE)
        /\ (op = "is_spam" /\ arg = LetsMeet) => ret = Bool(FALSE)
        /\ (op = "spamminess" /\ arg = BuyCheapStuff) => IsProduct(ret, 1, 1, 2)
        /\ (op = "hamminess" /\ arg = BuyCheapStuff) => IsProduct(ret, 3, 1, 2)
        /\ (op = "spamminess" /\ arg = LetsMeet) => IsProduct(ret, 3, 1, 2)
        /\ (op = "hamminess" /\ arg = LetsMeet) => IsProduct(ret, 0, 1, 2)

C8_Witness ==
    TrainedOnExample /\ op = "is_spam" /\ arg = BuyCheapStuff /\ ret = Bool(TRUE)

\* C9: no call ever lowers a count or a message counter or removes a key,
\* and a call that is not a training call leaves the counts and both
\* counters as they were, also when it looks up words the store lacks.
C9_OnlyTrainingWritesAndOnlyUpwards ==
    [][/\ \A k \in DOMAIN storage : k \in DOMAIN storage' /\ storage'[k] >= storage[k]
       /\ num_spam' >= num_spam
       /\ num_ham' >= num_ham
       /\ ~IsTraining(op') =>
            storage' = storage /\ num_spam' = num_spam /\ num_ham' = num_ham]_vars

C9_Witness ==
    /\ op = "is_spam"
    /\ arg = BuyCheapStuff
    /\ Count(storage, SPAM, <<"b", "u", "y">>) = 2
    /\ Count(storage, SPAM, <<"s", "t", "u", "f", "f">>) = 0
    /\ Count(storage, HAM, <<"b", "u", "y">>) = 0

(***************************************************************************)
(* Properties of the tokenizer, against a description of its result that   *)
(* does not follow the code's steps: the text with every tag replaced,     *)
(* then its maximal runs of letters (whitespace is no letter, so the runs  *)
(* of the text are the runs of its whitespace-separated fragments).        *)
(***************************************************************************)
\* the tag class as the pattern has it, and as described without '|'
TagClassWithBar == WordChars \cup {"|"} \cup Whitespace \cup {"=", ":"}
TagClassWithoutBar == WordChars \cup Whitespace \cup {"=", ":"}

\* the ends of the matches of '<', optional '/', one or more of class, '>' at i
TagMatches(s, i, class) ==
    {k \in (i + 2)..Len(s) :
        /\ s[i] = "<"
        /\ s[k] = ">"
        /\ \E j \in {i + 1, i + 2} :
             /\ j = i + 2 => s[i + 1] = "/"
             /\ j < k
             /\ \A x \in j..(k - 1) : s[x] \in class}

RECURSIVE WithTagsReplaced(_, _, _, _)
\* s from i on, each tag replaced by sep, scanning left to right
WithTagsReplaced(s, i, class, sep) ==
    IF i > Len(s) THEN <<>>
    ELSE IF TagMatches(s, i, class) # {}
         THEN sep \o WithTagsReplaced(s, (CHOOSE k \in TagMatches(s, i, class) : TRUE) + 1,
                                      class, sep)
         ELSE <<s[i]>> \o WithTagsReplaced(s, i + 1, class, sep)

RECURSIVE LetterRunsFrom(_, _)
\* the maximal runs of ASCII letters of s from i on
LetterRunsFrom(s, i) ==
    IF i > Len(s) THEN <<>>
    ELSE IF s[i] \notin Letters THEN LetterRunsFrom(s, i + 1)
    ELSE LET b == CHOOSE e \in i..Len(s) :
                    /\ \A x \in i..e : s[x] \in Letters
                    /\ e = Len(s) \/ s[e + 1] \notin Letters
         IN  <<SubSeq(s, i, b)>> \o LetterRunsFrom(s, b + 1)

LetterRuns(s) == LetterRunsFrom(s, 1)

\* C10 as stated: every tag ('|' not in its class) is deleted outright, so
\* get_words is the letter runs of the text without its tags and letters
\* on both sides of a tag make one word.
C10_TagsDeleted ==
    op = "get_words" =>
        ret.val = LetterRuns(WithTagsReplaced(arg, 1, TagClassWithoutBar, <<>>))

\* C10 as amended: every tag (its class holds '|' too) is replaced by one
\* space, so get_words is the letter runs of the text with a space for
\* each tag and letters on both sides of a tag are two words.
C10_TagsBecomeSpaces ==
    op = "get_words" =>
        ret.val = LetterRuns(WithTagsReplaced(arg, 1, TagClassWithBar, <<" ">>))

C10_Witness ==
    /\ op = "get_words"
    /\ arg = <<"a", "<", "a", ">", "a">>
    /\ ret.val = <<<<"a">>, <<"a">>>>

====
